---- MODULE Spec2Model ----
(***************************************************************************)
(* A model of the flystorage AWS S3 adapter (AwsS3FileStorage): the        *)
(* paginated listing generator listObjects, list, deleteDirectory with its *)
(* concurrently dispatched delete batches, deleteFile, write, read,        *)
(* createDirectory, changeVisibility, visibility, fileExists,              *)
(* directoryExists and checksum, over a model of the S3 bucket (a flat key *)
(* namespace with per-object access-control grants, bodies and checksums), *)
(* and of resolveMimeType with streamHead of stream-mime-type.             *)
(* Keys and paths are sequences of one-character strings, so that prefix   *)
(* matching, the delimiter roll-up and the lexicographic order of a        *)
(* listing are computed, not assumed.                                      *)
(***************************************************************************)
EXTENDS Integers, Sequences, FiniteSets, TLC

(***************************************************************************)
(* Bounds of the model.                                                    *)
(***************************************************************************)
\* Stand-in for the 1000 of deleteDirectory's flush test and of the S3
\* DeleteObjects request limit (the same number in the program), scaled
\* down so that a directory of four objects needs more than one batch.
MaxBatch == 2
\* Largest number of entries the backend puts in one listing page
\* (stand-in for the S3 page limit of 1000).
MaxPage == 2
\* Number of adapter operations one behaviour starts.
MaxOps == 2
\* Stand-in for the 4100 bytes resolveMimeType asks streamHead for.
HeadSize == 2
\* Stand-in for the highWaterMark of a PassThrough (16384 bytes unless
\* configured): like it, more than the head size.
HighWaterMark == 3
\* Largest number of bytes of a stream given to write or resolveMimeType:
\* more than the high-water mark.
MaxBytes == 4

(***************************************************************************)
(* Characters, keys and paths.                                             *)
(***************************************************************************)
Sep == "/"

\* UTF-8 code of a character: S3 lists keys in UTF-8 binary order.
CharCode(c) ==
    CASE c = "/" -> 47
      [] c = "a" -> 97
      [] c = "b" -> 98
      [] c = "c" -> 99
      [] c = "d" -> 100
      [] c = "e" -> 101
      [] c = "s" -> 115

\* The adapter's configured root prefix (options.prefix), as the
\* PathPrefixer keeps it: with its trailing separator.
RootPrefix == <<"s", "/">>

\* Logical paths the client passes to the directory operations.
DirPaths == { <<"a">>, <<"a", "/", "b">> }

\* Logical paths the client passes to the file operations.
FilePaths == { <<"a", "/", "a">>, <<"a", "b">> }

\* The object keys of a large directory: with them, more keys lie beneath
\* "a" than two delete batches carry.
LargeDirectoryKeys ==
    { RootPrefix \o k : k \in
        { <<"a", "/", "c">>,
          <<"a", "/", "d">>,
          <<"a", "/", "e">> } }

\* The object keys the bucket may hold.
Keys ==
    { RootPrefix \o k : k \in
        { <<"a", "/">>,
          <<"a", "/", "a">>,
          <<"a", "/", "b", "/">>,
          <<"a", "/", "b", "/", "a">>,
          <<"a", "b">>,
          <<"a", "b", "/", "a">> } }
    \cup LargeDirectoryKeys

IsPrefixOf(p, s) ==
    /\ Len(p) <= Len(s)
    /\ SubSeq(s, 1, Len(p)) = p

EndsWithSep(s) == Len(s) > 0 /\ s[Len(s)] = Sep

\* Strict lexicographic order on character sequences by character code:
\* at the first position where t has a character that s has not or that
\* differs, s has ended or has the smaller character.
LexLess(s, t) ==
    \E i \in 1..Len(t) :
        /\ \A j \in 1..(i - 1) : j <= Len(s) /\ s[j] = t[j]
        /\ (i > Len(s) \/ CharCode(s[i]) < CharCode(t[i]))

\* A finite set of character sequences as the sequence in ascending order:
\* the element at position i has i - 1 elements before it.
SortedSeq(S) ==
    [ i \in 1..Cardinality(S) |->
        CHOOSE x \in S : Cardinality({ y \in S : LexLess(y, x) }) = i - 1 ]

RECURSIVE StripTrailingSeps(_)
StripTrailingSeps(s) ==
    IF EndsWithSep(s) THEN StripTrailingSeps(SubSeq(s, 1, Len(s) - 1)) ELSE s

(***************************************************************************)
(* PathPrefixer.                                                           *)
(***************************************************************************)
prefixFilePath(path) == RootPrefix \o path

prefixDirectoryPath(path) == RootPrefix \o path \o <<Sep>>

stripFilePath(key) == SubSeq(key, Len(RootPrefix) + 1, Len(key))

stripDirectoryPath(key) == StripTrailingSeps(stripFilePath(key))

(***************************************************************************)
(* The S3 bucket: objects and their access-control grants.                 *)
(***************************************************************************)
VARIABLES
    store,      \* the bucket: key -> [present, grants]
    iters,      \* the list() iterations the client holds: id -> generator
    op,         \* the adapter operation in progress or last completed
    batches,    \* the DeleteObjects requests deleteDirectory dispatched
    before,     \* the bucket when the operation in op started
    prev,       \* summary of the operation completed before the one in op
    nops        \* number of operations started

vars == <<store, iters, op, batches, before, prev, nops>>

Owner == "owner"
AllUsers == "http://acs.amazonaws.com/groups/global/AllUsers"
AuthenticatedUsers == "http://acs.amazonaws.com/groups/global/AuthenticatedUsers"

\* An object of the bucket: its access-control grants, its content (body)
\* and the algorithms of the checksums S3 holds for it (sums).
Absent == [present |-> FALSE, grants |-> {}, body |-> <<>>, sums |-> {}]

\* The content of the files of a typical bucket, as one chunk of a stream
\* and as the bytes stored.
PlainContents == << <<"x">> >>
PlainBody == <<"x">>

\* The content S3 holds for an object from before the run: a directory
\* marker is a zero-length object.
TypicalBody(key) == IF EndsWithSep(key) THEN <<>> ELSE PlainBody

Present(st, key) == key \in Keys /\ st[key].present

\* The grants S3 stores for a canned ACL; an upload without ACL gets the
\* bucket default, private.
GrantsOfCannedAcl(acl) ==
    CASE acl = "public-read" ->
            { <<Owner, "FULL_CONTROL">>, <<AllUsers, "READ">> }
      [] acl = "private" -> { <<Owner, "FULL_CONTROL">> }
      [] OTHER -> { <<Owner, "FULL_CONTROL">> }

\* Grant sets an object of the bucket may carry from before the run.
InitialGrants ==
    { GrantsOfCannedAcl("private"),
      GrantsOfCannedAcl("public-read"),
      { <<Owner, "FULL_CONTROL">>, <<AllUsers, "WRITE">> },
      { <<Owner, "FULL_CONTROL">>, <<AuthenticatedUsers, "READ">> } }

(***************************************************************************)
(* S3 ListObjectsV2.                                                       *)
(***************************************************************************)
\* No continuation token (undefined).
NoToken == <<>>

RestOfKey(key, prefix) == SubSeq(key, Len(prefix) + 1, Len(key))

\* Index of the first separator of s, 0 when it has none.
FirstSep(s) ==
    IF \E i \in 1..Len(s) : s[i] = Sep
    THEN CHOOSE i \in 1..Len(s) :
            /\ s[i] = Sep
            /\ \A j \in 1..(i - 1) : s[j] # Sep
    ELSE 0

\* Keys of the bucket that start with prefix.
MatchingKeys(st, prefix) ==
    { k \in Keys : st[k].present /\ IsPrefixOf(prefix, k) }

\* With a delimiter, a key that holds the delimiter after the prefix is
\* rolled up into the common prefix ending at that delimiter.
RolledUp(key, prefix, delimited) ==
    delimited /\ FirstSep(RestOfKey(key, prefix)) > 0

CommonPrefixOf(key, prefix) ==
    prefix \o SubSeq(RestOfKey(key, prefix), 1, FirstSep(RestOfKey(key, prefix)))

ContentNames(st, prefix, delimited) ==
    { k \in MatchingKeys(st, prefix) : ~RolledUp(k, prefix, delimited) }

CommonPrefixNames(st, prefix, delimited) ==
    { CommonPrefixOf(k, prefix) :
        k \in { x \in MatchingKeys(st, prefix) : RolledUp(x, prefix, delimited) } }

\* Every name a listing may return (the keys and their prefixes that end
\* with the delimiter), in the order S3 returns names.
NameOrder ==
    SortedSeq(Keys \cup UNION { { SubSeq(k, 1, i) : i \in { j \in 1..Len(k) : k[j] = Sep } } :
                                k \in Keys })

\* The names (keys and common prefixes) still to be returned after token,
\* in the order S3 returns them.
NamesAfter(st, prefix, delimited, token) ==
    LET Wanted(x) ==
            /\ x \in ContentNames(st, prefix, delimited)
                      \cup CommonPrefixNames(st, prefix, delimited)
            /\ (token = NoToken \/ LexLess(token, x))
    IN  SelectSeq(NameOrder, Wanted)

Min(a, b) == IF a <= b THEN a ELSE b

\* The response to a ListObjectsV2 request when the backend puts n names in
\* the page.
ListObjectsV2(st, prefix, delimited, token, n) ==
    LET names == NamesAfter(st, prefix, delimited, token)
        size == Min(n, Len(names))
        page == SubSeq(names, 1, size)
        IsCP(x) == x \in CommonPrefixNames(st, prefix, delimited)
        IsKey(x) == ~IsCP(x)
        truncated == Len(names) > size
    IN  [ CommonPrefixes |-> SelectSeq(page, IsCP),
          Contents |-> SelectSeq(page, IsKey),
          IsTruncated |-> truncated,
          NextContinuationToken |->
              IF truncated /\ size > 0 THEN page[size] ELSE NoToken ]

\* Page sizes the backend may choose for a request with the given MaxKeys
\* (the empty set when the request names none).
PageSizes(maxKeys) ==
    1..(IF maxKeys = {} THEN MaxPage
        ELSE Min(MaxPage, CHOOSE m \in maxKeys : TRUE))

(***************************************************************************)
(* listObjects: the paginated listing generator.                           *)
(*                                                                         *)
(* A generator is a record of the call's arguments, its local variables    *)
(* (collectedKeys, shouldContinue, continuationToken), the part of the     *)
(* current response not yet iterated (buf), its position (status) and a    *)
(* log of what it exchanged with the backend and with its consumer.        *)
(* status: "none" no generator, "suspended" waiting for the consumer's     *)
(* next(), "running" executing after a next(), "done" the while loop       *)
(* ended, "closed" the consumer ended the iteration early (return()).      *)
(* asked counts the consumer's calls of next().                            *)
(***************************************************************************)
NoGen ==
    [ status |-> "none", path |-> <<>>, prefix |-> <<>>, deep |-> FALSE,
      includePrefixes |-> FALSE, includeSelf |-> FALSE, maxKeys |-> {},
      collectedKeys |-> 0, shouldContinue |-> FALSE,
      continuationToken |-> NoToken, buf |-> <<>>,
      asked |-> 0, yielded |-> <<>>, received |-> <<>>, requests |-> <<>>,
      responses |-> <<>> ]

\* Faulty variant: the listing prefix is the path without a separator at
\* its end.
listObjects_FilePrefix(path, deep, includePrefixes, includeSelf, maxKeys) ==
    [ NoGen EXCEPT
        !.status = "suspended",
        !.path = path,
        !.prefix = prefixFilePath(path),
        !.deep = deep,
        !.includePrefixes = includePrefixes,
        !.includeSelf = includeSelf,
        !.maxKeys = maxKeys,
        !.shouldContinue = TRUE ]

\* Faulty variant: the body starts to run when the generator is created.
listObjects_Eager(path, deep, includePrefixes, includeSelf, maxKeys) ==
    [ NoGen EXCEPT
        !.status = "running",
        !.path = path,
        !.prefix = prefixDirectoryPath(path),
        !.deep = deep,
        !.includePrefixes = includePrefixes,
        !.includeSelf = includeSelf,
        !.maxKeys = maxKeys,
        !.shouldContinue = TRUE ]

\* The generator object a call of listObjects returns: nothing has run yet.
listObjects(path, deep, includePrefixes, includeSelf, maxKeys) ==
    [ NoGen EXCEPT
        !.status = "suspended",
        !.path = path,
        !.prefix = prefixDirectoryPath(path),
        !.deep = deep,
        !.includePrefixes = includePrefixes,
        !.includeSelf = includeSelf,
        !.maxKeys = maxKeys,
        !.collectedKeys = 0,
        !.shouldContinue = TRUE,
        !.continuationToken = NoToken ]

\* Faulty variant: the loop goes on until the cap, whatever the response said.
LoopCondition_CapOnly(g) ==
    g.maxKeys = {} \/ \A m \in g.maxKeys : g.collectedKeys < m

\* The test of the while loop.
LoopCondition(g) ==
    /\ g.shouldContinue
    /\ (g.maxKeys = {} \/ \A m \in g.maxKeys : g.collectedKeys < m)

\* Faulty variant: the loops skip nothing.
NotSkipped_Nothing(g, item) == TRUE

\* An item of a response that the two for loops do not skip.
NotSkipped(g, item) == ~(~g.includeSelf /\ item.name = g.prefix)

\* The items of the current response still to be yielded.
Pending(g) ==
    LET Keep(item) == NotSkipped(g, item)
    IN  SelectSeq(g.buf, Keep)

AsItems(type, names) == [ i \in 1..Len(names) |-> [type |-> type, name |-> names[i]] ]

\* The items of a response in the order the code iterates them: the common
\* prefixes (when asked for), then the contents.
ItemsOfResponse(g, response) ==
    (IF g.includePrefixes THEN AsItems("prefix", response.CommonPrefixes) ELSE <<>>)
        \o AsItems("object", response.Contents)

\* Faulty variant: the cursor is kept on the adapter and shared by its iterations.
ListRequest_SharedCursor(g) ==
    [ Prefix |-> g.prefix,
      Delimited |-> ~g.deep,
      ContinuationToken |-> iters[1].continuationToken,
      MaxKeys |-> g.maxKeys ]

\* Faulty variant: the continuation token is not sent.
ListRequest_NoToken(g) ==
    [ Prefix |-> g.prefix,
      Delimited |-> ~g.deep,
      ContinuationToken |-> NoToken,
      MaxKeys |-> g.maxKeys ]

\* The request the generator sends for its next page.
ListRequest(g) ==
    [ Prefix |-> g.prefix,
      Delimited |-> ~g.deep,
      ContinuationToken |-> g.continuationToken,
      MaxKeys |-> g.maxKeys ]

\* The responses the backend may give to a request of the generator.
ListResponses(st, request) ==
    { ListObjectsV2(st, request.Prefix, request.Delimited,
                    request.ContinuationToken, n) :
        n \in PageSizes(request.MaxKeys) }

\* One turn of the while loop up to its first for loop: the request is sent
\* and the response taken in.
GenFetch(g, response) ==
    LET request == ListRequest(g)
    IN  [ g EXCEPT
            !.continuationToken = response.NextContinuationToken,
            !.shouldContinue = response.IsTruncated,
            !.buf = ItemsOfResponse(g, response),
            !.requests = Append(@, request.ContinuationToken),
            !.responses = Append(@, response.NextContinuationToken),
            !.received = @ \o AsItems("prefix", response.CommonPrefixes)
                           \o AsItems("object", response.Contents) ]

\* The generator yields the next item that is not skipped and suspends.
GenYield(g) ==
    [ g EXCEPT
        !.collectedKeys = @ + 1,
        !.yielded = Append(@, Head(Pending(g))),
        !.buf = Tail(Pending(g)),
        !.status = "suspended" ]

\* The while loop ends: the generator returns.
GenReturn(g) == [ g EXCEPT !.status = "done", !.buf = <<>> ]

\* The consumer calls next() on a suspended generator.
GenNext(g) == [ g EXCEPT !.status = "running", !.asked = @ + 1 ]

\* The consumer leaves its loop early: return() closes the generator where
\* it is suspended.
GenClose(g) == [ g EXCEPT !.status = "closed", !.buf = <<>> ]

CanFetch(g) == g.status = "running" /\ Pending(g) = <<>> /\ LoopCondition(g)
CanYield(g) == g.status = "running" /\ Pending(g) # <<>>
CanReturn(g) == g.status = "running" /\ Pending(g) = <<>> /\ ~LoopCondition(g)

\* The StatEntry list() makes of an item of listObjects.
StatEntryOf(item) ==
    IF item.type = "prefix"
    THEN [type |-> "directory", path |-> stripDirectoryPath(item.name)]
    ELSE IF EndsWithSep(item.name)
         THEN [type |-> "directory", path |-> stripDirectoryPath(item.name)]
         ELSE [type |-> "file", path |-> stripFilePath(item.name)]

\* What a list() iteration has yielded so far.
Listed(g) == [ i \in 1..Len(g.yielded) |-> StatEntryOf(g.yielded[i]) ]

(***************************************************************************)
(* The adapter's operations.                                               *)
(*                                                                         *)
(* op is the operation in progress (pc "listing" or "joining") or the last *)
(* one completed (pc "done", with its result).  The client starts one      *)
(* operation at a time and does not change the bucket while it holds an    *)
(* open list() iteration.  sent lists the commands the operation sent to   *)
(* the backend, other than the page requests of its listing (kept in       *)
(* listing.requests) and its delete batches (kept in batches);             *)
(* backendError is the error the backend answered an existence check with, *)
(* "" when it answered without error.                                      *)
(***************************************************************************)
\* concatUint8Arrays of stream-mime-type: the bytes of the chunks, in order.
RECURSIVE concatUint8Arrays(_)
concatUint8Arrays(input) ==
    IF input = <<>> THEN <<>> ELSE Head(input) \o concatUint8Arrays(Tail(input))

\* The state of a streamHead call that was never made.
NoStream ==
    [ source |-> <<>>, ended |-> TRUE, readBytes |-> 0, buffers |-> <<>>,
      resolved |-> FALSE, promise |-> "pending", head |-> <<>>, out |-> <<>>,
      consumed |-> <<>>, errored |-> FALSE ]

NoOp ==
    [ name |-> "none", path |-> <<>>, arg |-> {}, pc |-> "done",
      result |-> "none", value |-> "", failed |-> 0, listing |-> NoGen,
      bucket |-> <<>>, sent |-> <<>>, options |-> <<>>, backendError |-> "",
      contents |-> <<>>, stream |-> NoStream ]

\* What is remembered of the operation before the current one: for a delete
\* operation its name, path and result, for a write or changeVisibility also
\* the visibility it was given, for a write the bytes of the contents it
\* was given and whether they went through resolveMimeType, for a
\* createDirectory its name, path and result, for any other operation
\* nothing.
Summary(o) ==
    IF o.name \in {"deleteFile", "deleteDirectory"}
    THEN [ name |-> o.name, path |-> o.path, arg |-> {}, result |-> o.result,
           bytes |-> <<>>, resolved |-> FALSE ]
    ELSE IF o.name \in {"write", "changeVisibility"}
    THEN [ name |-> o.name, path |-> o.path, arg |-> o.arg, result |-> o.result,
           bytes |-> concatUint8Arrays(o.contents),
           resolved |-> o.stream # NoStream ]
    ELSE IF o.name = "createDirectory"
    THEN [ name |-> o.name, path |-> o.path, arg |-> {}, result |-> o.result,
           bytes |-> <<>>, resolved |-> FALSE ]
    ELSE [ name |-> "other", path |-> <<>>, arg |-> {}, result |-> "none",
           bytes |-> <<>>, resolved |-> FALSE ]

Visibility == [ PUBLIC |-> "public", PRIVATE |-> "private" ]

\* The values a caller may give as visibility: the two of the enumeration,
\* another string and the empty string.
VisibilityValues == { Visibility.PUBLIC, Visibility.PRIVATE, "unlisted", "" }

\* An optional visibility: {} when the option is not given, else {v}.
OptionalVisibility == { {} } \cup { {v} : v \in VisibilityValues }

PendingBatches == { i \in 1..Len(batches) : batches[i].state = "pending" }

IterOpen(i) == iters[i].status \in {"suspended", "running"}

Iters == {1, 2}

NoIters == [ i \in Iters |-> NoGen ]

\* The client may start an operation: none is in progress, no iteration is
\* open and no delete batch is in flight.
CanStart ==
    /\ nops < MaxOps
    /\ op.pc = "done"
    /\ \A i \in Iters : ~IterOpen(i)
    /\ PendingBatches = {}

\* An operation begins: what the client kept of the one before (its
\* iterations, the settled delete batches) is dropped.
Begin(next) ==
    /\ prev' = Summary(op)
    /\ op' = next
    /\ before' = store
    /\ batches' = <<>>
    /\ nops' = nops + 1

(***************************************************************************)
(* list                                                                    *)
(***************************************************************************)
\* list(path, {deep}): a new iteration; nothing is sent yet.
ListStart(path, deep) ==
    /\ CanStart
    /\ Begin([ NoOp EXCEPT !.name = "list", !.path = path, !.result = "ok" ])
    /\ iters' = [ NoIters EXCEPT ![1] = listObjects(path, deep, TRUE, FALSE, {}) ]
    /\ UNCHANGED store

\* listObjects(path, {deep, includePrefixes, includeSelf, maxKeys}) called
\* by a client of the adapter: a new generator; nothing is sent yet.
ListObjectsStart(path, deep, includePrefixes, includeSelf, maxKeys) ==
    /\ CanStart
    /\ Begin([ NoOp EXCEPT !.name = "listObjects", !.path = path, !.result = "ok" ])
    /\ iters' = [ NoIters EXCEPT
                    ![1] = listObjects(path, deep, includePrefixes, includeSelf, maxKeys) ]
    /\ UNCHANGED store

\* A second call of list for the same listing while the first iteration is
\* held (open or finished).
ListStartSecond ==
    /\ nops < MaxOps
    /\ op.pc = "done" /\ op.name = "list"
    /\ iters[1].status # "none"
    /\ iters[2].status = "none"
    /\ iters' = [ iters EXCEPT
                    ![2] = listObjects(iters[1].path, iters[1].deep, TRUE, FALSE, {}) ]
    /\ nops' = nops + 1
    /\ UNCHANGED <<store, op, batches, before, prev>>

\* The consumer asks for the next entry.
ListNext(i) ==
    /\ iters[i].status = "suspended"
    /\ iters' = [ iters EXCEPT ![i] = GenNext(@) ]
    /\ UNCHANGED <<store, op, batches, before, prev, nops>>

\* The consumer stops early: the generator is closed by return().
ListStop(i) ==
    /\ iters[i].status = "suspended"
    /\ iters' = [ iters EXCEPT ![i] = GenClose(@) ]
    /\ UNCHANGED <<store, op, batches, before, prev, nops>>

ListFetch(i) ==
    /\ CanFetch(iters[i])
    /\ \E response \in ListResponses(store, ListRequest(iters[i])) :
          iters' = [ iters EXCEPT ![i] = GenFetch(@, response) ]
    /\ UNCHANGED <<store, op, batches, before, prev, nops>>

ListYield(i) ==
    /\ CanYield(iters[i])
    /\ iters' = [ iters EXCEPT ![i] = GenYield(@) ]
    /\ UNCHANGED <<store, op, batches, before, prev, nops>>

ListEnd(i) ==
    /\ CanReturn(iters[i])
    /\ iters' = [ iters EXCEPT ![i] = GenReturn(@) ]
    /\ UNCHANGED <<store, op, batches, before, prev, nops>>

(***************************************************************************)
(* deleteDirectory                                                         *)
(***************************************************************************)
\* The test that flushes the bucket inside the loop.
BucketIsFull(bucket) == Len(bucket) > MaxBatch

\* Faulty variant: a rest of one key is not flushed.
BucketHasRest_MoreThanOne(bucket) == Len(bucket) > 1

\* Faulty variant: the rest is flushed without the test, also when it is empty.
BucketHasRest_Always(bucket) == TRUE

\* The test that flushes what is left after the loop.
BucketHasRest(bucket) == Len(bucket) > 0

\* Faulty variant: the loop waits for the request it sends.
Flush_Awaited(bs, keys) == Append(bs, [keys |-> keys, state |-> "fulfilled", error |-> ""])

\* flush(keys): a DeleteObjects request is sent; its promise is pending.
Flush(bs, keys) == Append(bs, [keys |-> keys, state |-> "pending", error |-> ""])

\* deleteDirectory(path): the listing generator is created and the for await
\* loop asks for its first item.
DeleteDirectoryStart(path) ==
    /\ CanStart
    /\ Begin([ NoOp EXCEPT
                 !.name = "deleteDirectory", !.path = path, !.pc = "listing",
                 !.listing = GenNext(listObjects(path, TRUE, FALSE, TRUE, {})) ])
    /\ iters' = NoIters
    /\ UNCHANGED store

\* The listing generator of the operation in progress fetches a page.
ListingFetch ==
    /\ op.pc = "listing"
    /\ CanFetch(op.listing)
    /\ \E response \in ListResponses(store, ListRequest(op.listing)) :
          op' = [ op EXCEPT !.listing = GenFetch(@, response) ]
    /\ UNCHANGED <<store, iters, batches, before, prev, nops>>

\* One turn of the for await loop: the key is pushed, a full bucket is
\* flushed, and the loop asks for the next item.
DeleteDirectoryItem ==
    /\ op.name = "deleteDirectory" /\ op.pc = "listing"
    /\ CanYield(op.listing)
    /\ LET item == Head(Pending(op.listing))
           pushed == Append(op.bucket, item.name)
           full == BucketIsFull(pushed)
       IN  /\ op' = [ op EXCEPT
                        !.listing = GenNext(GenYield(@)),
                        !.bucket = IF full THEN <<>> ELSE pushed ]
           /\ batches' = IF full THEN Flush(batches, pushed) ELSE batches
    /\ UNCHANGED <<store, iters, before, prev, nops>>

\* The listing ends: the rest of the bucket is flushed and Promise.all of
\* the flush promises is awaited.
DeleteDirectoryLoopEnd ==
    /\ op.name = "deleteDirectory" /\ op.pc = "listing"
    /\ CanReturn(op.listing)
    /\ op' = [ op EXCEPT !.listing = GenReturn(@), !.pc = "joining",
                         !.bucket = IF BucketHasRest(@) THEN <<>> ELSE @ ]
    /\ batches' = IF BucketHasRest(op.bucket) THEN Flush(batches, op.bucket)
                  ELSE batches
    /\ UNCHANGED <<store, iters, before, prev, nops>>

Rejected(bs) == { i \in 1..Len(bs) : bs[i].state = "rejected" }

\* Faulty variant: the promises are not awaited.
AllFulfils_NotAwaited(bs) == TRUE

\* Promise.all(promises) fulfils when every promise is fulfilled.
AllFulfils(bs) == \A i \in 1..Len(bs) : bs[i].state = "fulfilled"

\* Promise.all(promises) rejects as soon as one promise is rejected.
AllRejects(bs) == Rejected(bs) # {}

\* S3 takes at most this many keys in one DeleteObjects request.
DeleteObjectsAccepts(keys) == Len(keys) <= MaxBatch

\* The errors a DeleteObjects request may end with: a transport error, or
\* S3's rejection of a request that names too many keys.
DeleteObjectsErrors(keys) ==
    IF DeleteObjectsAccepts(keys) THEN {"NetworkError"} ELSE {"MalformedXML"}

DeleteKeys(st, keys) ==
    [ k \in Keys |-> IF \E i \in 1..Len(keys) : keys[i] = k THEN Absent ELSE st[k] ]

\* A DeleteObjects request in flight is answered: the keys are removed and
\* the promise fulfils, or the request fails (a transport error at any
\* time, a rejection when it carries too many keys) and the promise
\* rejects.  Once Promise.all has a rejected promise, its own rejection
\* runs before any further response is handled.
BatchSettle(i) ==
    /\ i \in PendingBatches
    /\ ~(op.pc = "joining" /\ AllRejects(batches))
    /\ \/ /\ DeleteObjectsAccepts(batches[i].keys)
          /\ store' = DeleteKeys(store, batches[i].keys)
          /\ batches' = [ batches EXCEPT ![i].state = "fulfilled" ]
       \/ /\ \E error \in DeleteObjectsErrors(batches[i].keys) :
                batches' = [ batches EXCEPT ![i].state = "rejected",
                                            ![i].error = error ]
          /\ UNCHANGED store
    /\ UNCHANGED <<iters, op, before, prev, nops>>

DeleteDirectoryResolve ==
    /\ op.name = "deleteDirectory" /\ op.pc = "joining"
    /\ AllFulfils(batches)
    /\ op' = [ op EXCEPT !.pc = "done", !.result = "ok" ]
    /\ UNCHANGED <<store, iters, batches, before, prev, nops>>

\* deleteDirectory rejects with the error of the rejected promise that
\* Promise.all reaches first.
DeleteDirectoryReject ==
    /\ op.name = "deleteDirectory" /\ op.pc = "joining"
    /\ AllRejects(batches)
    /\ LET first == CHOOSE i \in Rejected(batches) :
                        \A j \in Rejected(batches) : i <= j
       IN  op' = [ op EXCEPT !.pc = "done", !.result = "error",
                             !.failed = first, !.value = batches[first].error ]
    /\ UNCHANGED <<store, iters, batches, before, prev, nops>>

(***************************************************************************)
(* directoryExists                                                         *)
(***************************************************************************)
\* directoryExists(path): a listing of at most one key is iterated.
DirectoryExistsStart(path) ==
    /\ CanStart
    /\ Begin([ NoOp EXCEPT
                 !.name = "directoryExists", !.path = path, !.pc = "listing",
                 !.listing = GenNext(listObjects(path, TRUE, TRUE, TRUE, {1})) ])
    /\ iters' = NoIters
    /\ UNCHANGED store

\* The first item arrives: true is returned from inside the loop, which
\* closes the generator.
DirectoryExistsItem ==
    /\ op.name = "directoryExists" /\ op.pc = "listing"
    /\ CanYield(op.listing)
    /\ op' = [ op EXCEPT !.listing = GenClose(GenYield(@)), !.pc = "done",
                         !.result = "ok", !.value = "true" ]
    /\ UNCHANGED <<store, iters, batches, before, prev, nops>>

\* The listing ends without an item: false.
DirectoryExistsEnd ==
    /\ op.name = "directoryExists" /\ op.pc = "listing"
    /\ CanReturn(op.listing)
    /\ op' = [ op EXCEPT !.listing = GenReturn(@), !.pc = "done",
                         !.result = "ok", !.value = "false" ]
    /\ UNCHANGED <<store, iters, batches, before, prev, nops>>

\* The errors HeadObject may answer with: not found (status 404) for a key
\* that does not exist, and at any time an error of the transport or of the
\* service.
NotFound == "NotFound"
HeadObjectErrors(object) ==
    (IF object.present THEN {} ELSE { NotFound }) \cup { "NetworkError", "AccessDenied" }

\* The errors the backend may answer a page request with.
ListObjectsV2Errors == { "NetworkError", "AccessDenied" }

\* The page request fails: listObjects has no handler, the for await loop
\* of directoryExists has none either, and the error reaches the caller.
DirectoryExistsFails ==
    /\ op.name = "directoryExists" /\ op.pc = "listing"
    /\ CanFetch(op.listing)
    /\ \E error \in ListObjectsV2Errors :
          op' = [ op EXCEPT
                    !.listing = [ GenReturn(@) EXCEPT !.requests = Append(@, NoToken) ],
                    !.pc = "done", !.result = "error", !.value = error,
                    !.backendError = error ]
    /\ UNCHANGED <<store, iters, batches, before, prev, nops>>

(***************************************************************************)
(* fileExists                                                              *)
(***************************************************************************)
\* Faulty variant: every error is taken for absence.
IsNotFound_AnyError(error) == TRUE

\* e instanceof S3ServiceException && e.$metadata.httpStatusCode === 404
IsNotFound(error) == error = NotFound

\* fileExists(path): HeadObject answers, or fails; a not-found failure is
\* the result false, any other is thrown again.
FileExists(path) ==
    /\ CanStart
    /\ prefixFilePath(path) \in Keys
    /\ LET object == store[prefixFilePath(path)]
           this == [ NoOp EXCEPT !.name = "fileExists", !.path = path,
                                 !.sent = <<"HeadObject">> ]
       IN  \/ /\ object.present
              /\ Begin([ this EXCEPT !.result = "ok", !.value = "true" ])
           \/ \E error \in HeadObjectErrors(object) :
                 IF IsNotFound(error)
                 THEN Begin([ this EXCEPT !.result = "ok", !.value = "false",
                                          !.backendError = error ])
                 ELSE Begin([ this EXCEPT !.result = "error", !.value = error,
                                          !.backendError = error ])
    /\ iters' = NoIters
    /\ UNCHANGED store

(***************************************************************************)
(* deleteFile                                                              *)
(***************************************************************************)
\* S3 DeleteObject removes the key and succeeds whether or not it existed.
DeleteObject(st, key) == [ st EXCEPT ![key] = Absent ]

DeleteFile(path) ==
    /\ CanStart
    /\ prefixFilePath(path) \in Keys
    /\ Begin([ NoOp EXCEPT !.name = "deleteFile", !.path = path, !.result = "ok",
                            !.sent = <<"DeleteObject">> ])
    /\ store' = DeleteObject(store, prefixFilePath(path))
    /\ iters' = NoIters

(***************************************************************************)
(* Visibility: write, createDirectory, changeVisibility, visibility.       *)
(***************************************************************************)
\* JavaScript undefined, as the value of an ACL parameter.
Undefined == "undefined"

\* What visibilityToAcl throws.
UnrecognizedVisibility == "Error: Unrecognized visibility provided"

visibilityToAcl(visibility) ==
    IF visibility = Visibility.PUBLIC THEN "public-read"
    ELSE IF visibility = Visibility.PRIVATE THEN "private"
    ELSE UnrecognizedVisibility

\* The ACL of `options.visibility ? this.visibilityToAcl(...) : undefined`:
\* an option that is absent or the empty string is falsy.
AclOfOption(optional) ==
    IF optional = {} \/ optional = {""} THEN Undefined
    ELSE visibilityToAcl(CHOOSE v \in optional : TRUE)

\* S3 PutObject (through Upload): the object is stored with the grants of
\* the canned ACL of the request and the bytes of the request body; the
\* adapter asks for no checksum algorithm, so S3 keeps no checksum.
PutObject(st, key, acl, body) ==
    [ st EXCEPT ![key] = [present |-> TRUE, grants |-> GrantsOfCannedAcl(acl),
                          body |-> body, sums |-> {}] ]

\* S3 PutObjectAcl on an object that exists.
PutObjectAcl(st, key, acl) ==
    [ st EXCEPT ![key].grants = GrantsOfCannedAcl(acl) ]

\* Faulty variant: any grant to all users counts, whatever its permission.
VisibilityOfGrants_AnyPermission(grants) ==
    IF \E grant \in grants : grant[1] = AllUsers
    THEN Visibility.PUBLIC
    ELSE Visibility.PRIVATE

\* The result of visibility() from the grants GetObjectAcl returns.
VisibilityOfGrants(grants) ==
    IF \E grant \in grants : grant[1] = AllUsers /\ grant[2] = "READ"
    THEN Visibility.PUBLIC
    ELSE Visibility.PRIVATE

(***************************************************************************)
(* resolveMimeType and streamHead (stream-mime-type).                      *)
(*                                                                         *)
(* A stream is the sequence of the chunks it will emit; a chunk is a       *)
(* non-empty sequence of bytes.  The state of one streamHead call is a     *)
(* record: the chunks the source has not yet passed through the tunnel,    *)
(* the variables readBytes, buffers and resolved of the closure, the       *)
(* promise and the head it resolved with, the chunks that wait in          *)
(* outputStream, whether the tunnel has ended, the bytes the consumer of   *)
(* outputStream has read, and whether the source has raised an error.      *)
(***************************************************************************)
\* streamHead(stream, size) as it returns: the listeners are attached and
\* the pipes are set up, nothing has flowed yet.
streamHead(stream) ==
    [ NoStream EXCEPT !.source = stream, !.ended = FALSE ]

\* The 'data' listener of the tunnel.
OnData(s, chunk, size) ==
    IF s.resolved THEN s
    ELSE LET readBytes == s.readBytes + Len(chunk)
             buffers == Append(s.buffers, chunk)
         IN  IF readBytes >= size
             THEN [ s EXCEPT !.readBytes = readBytes, !.resolved = TRUE,
                             !.head = concatUint8Arrays(buffers),
                             !.buffers = <<>>, !.promise = "resolved" ]
             ELSE [ s EXCEPT !.readBytes = readBytes, !.buffers = buffers ]

\* The 'end' listener of the tunnel.
OnEnd(s) ==
    IF s.resolved THEN s
    ELSE [ s EXCEPT !.head = concatUint8Arrays(s.buffers), !.promise = "resolved" ]

\* Faulty variant: what the head collector has taken does not reach
\* outputStream.
PipeToOutput_OnlyAfterHead(s, chunk) ==
    IF s.resolved THEN Append(s.out, chunk) ELSE s.out

\* tunnel.pipe(outputStream): every chunk the tunnel emits is written to
\* outputStream.
PipeToOutput(s, chunk) == Append(s.out, chunk)

\* Backpressure of the pipe into outputStream: once outputStream holds
\* highWaterMark bytes its write() returns false and the tunnel is paused
\* until the consumer has read.
Flowing(s) == Len(concatUint8Arrays(s.out)) < HighWaterMark

\* The operation in progress owns a stream that is being sniffed or read.
Streaming == op.pc \in {"streamHead", "reading"}

\* One chunk passes from the source through the tunnel: to the 'data'
\* listener and to outputStream.
StreamData ==
    /\ Streaming
    /\ ~op.stream.errored
    /\ op.stream.source # <<>>
    /\ Flowing(op.stream)
    /\ LET chunk == Head(op.stream.source)
           heard == OnData(op.stream, chunk, HeadSize)
       IN  op' = [ op EXCEPT !.stream =
                     [ heard EXCEPT !.source = Tail(op.stream.source),
                                    !.out = PipeToOutput(op.stream, chunk) ] ]
    /\ UNCHANGED <<store, iters, batches, before, prev, nops>>

\* The source has ended and the tunnel has passed everything on: the
\* tunnel emits 'end' and ends outputStream.
StreamEnd ==
    /\ Streaming
    /\ ~op.stream.errored
    /\ op.stream.source = <<>>
    /\ ~op.stream.ended
    /\ op' = [ op EXCEPT !.stream = [ OnEnd(op.stream) EXCEPT !.ended = TRUE ] ]
    /\ UNCHANGED <<store, iters, batches, before, prev, nops>>

\* The source raises an error before it has ended: it emits 'error' and
\* nothing more.  stream.pipe(tunnel) passes neither the error nor an end
\* on to the tunnel, whose 'error' listener is the only one that rejects.
StreamError ==
    /\ Streaming
    /\ ~op.stream.errored
    /\ ~op.stream.ended
    /\ op' = [ op EXCEPT !.stream.errored = TRUE ]
    /\ UNCHANGED <<store, iters, batches, before, prev, nops>>

\* The signature file-type knows in this model: content that begins with
\* these bytes is a PNG image.
Magic == <<"P", "N">>

StartsWith(bytes, prefix) ==
    /\ Len(bytes) >= Len(prefix)
    /\ SubSeq(bytes, 1, Len(prefix)) = prefix

\* What `await import('file-type')` followed by fileTypeFromBuffer(head)
\* may do: return the type of a recognised signature, return undefined, or
\* reject (the import fails or the detection throws).
fileTypeFromBuffer(head) ==
    { IF StartsWith(head, Magic)
      THEN [ kind |-> "match", mime |-> "image/png" ]
      ELSE [ kind |-> "none", mime |-> Undefined ] }
    \cup { [ kind |-> "throws", mime |-> Undefined ] }

\* What the rejection carries.
DetectionFailed == "Error: file type detection failed"

\* parse(filename).ext: the part of the base name from its last dot on,
\* empty when there is no dot or the only dot begins the base name.
ExtOf(filename) ==
    LET seps == { i \in 1..Len(filename) : filename[i] = Sep }
        base == IF seps = {} THEN 1 ELSE 1 + CHOOSE i \in seps : \A j \in seps : j <= i
        dots == { i \in base..Len(filename) : filename[i] = "." }
        last == CHOOSE i \in dots : \A j \in dots : j <= i
    IN  IF dots = {} THEN <<>>
        ELSE IF last = base THEN <<>>
        ELSE SubSeq(filename, last, Len(filename))

\* lookup of mime-types: the type of a known extension, else false.
mimeTimeForExt(ext) ==
    IF ext = <<".", "t", "x", "t">> THEN "text/plain" ELSE "false"

\* mimeTimeForExt(ext) || fallback, fallback being {} when it is not given.
ExtOrFallback(filename, fallback) ==
    LET byExt == mimeTimeForExt(ExtOf(filename))
    IN  IF byExt # "false" THEN byExt
        ELSE IF fallback = {} \/ fallback = {""} THEN Undefined
        ELSE CHOOSE f \in fallback : TRUE

\* resolveMimeType(filename, stream, fallback) is called.
ResolveMimeTypeStart(filename, stream, fallback) ==
    /\ CanStart
    /\ Begin([ NoOp EXCEPT !.name = "resolveMimeType", !.path = filename,
                           !.arg = fallback, !.contents = stream,
                           !.pc = "streamHead", !.stream = streamHead(stream) ])
    /\ iters' = NoIters
    /\ UNCHANGED store

\* The promise of streamHead has resolved; resolveMimeType runs on to its
\* return or to its rejection.
ResolveMimeTypeReturn ==
    /\ op.name = "resolveMimeType"
    /\ op.pc = "streamHead"
    /\ op.stream.promise = "resolved"
    /\ \E lookup \in fileTypeFromBuffer(op.stream.head) :
          op' = IF lookup.kind = "throws"
                THEN [ op EXCEPT !.pc = "done", !.result = "error",
                                 !.value = DetectionFailed,
                                 !.options = [ lookup |-> lookup ] ]
                ELSE IF lookup.kind = "match"
                THEN [ op EXCEPT !.pc = "reading", !.result = "ok",
                                 !.value = lookup.mime,
                                 !.options = [ lookup |-> lookup ] ]
                ELSE [ op EXCEPT !.pc = "reading", !.result = "ok",
                                 !.value = ExtOrFallback(op.path, op.arg),
                                 !.options = [ lookup |-> lookup ] ]
    /\ UNCHANGED <<store, iters, batches, before, prev, nops>>

\* The consumer of the returned stream reads the next chunk.
ConsumerRead ==
    /\ op.pc = "reading"
    /\ op.stream.out # <<>>
    /\ op' = [ op EXCEPT !.stream.consumed = @ \o Head(op.stream.out),
                         !.stream.out = Tail(@) ]
    /\ UNCHANGED <<store, iters, batches, before, prev, nops>>

\* The consumer of the stream resolveMimeType returned sees its end.
ConsumerEnd ==
    /\ op.name = "resolveMimeType"
    /\ op.pc = "reading"
    /\ op.stream.out = <<>>
    /\ op.stream.ended
    /\ op' = [ op EXCEPT !.pc = "done" ]
    /\ UNCHANGED <<store, iters, batches, before, prev, nops>>

\* write(path, contents, {mimeType, visibility}): mimeType is {} when the
\* option is not given.  With a MIME type the contents go to the upload as
\* they are; without, they go through resolveMimeType first.
Write(path, contents, mimeType, optional) ==
    /\ CanStart
    /\ prefixFilePath(path) \in Keys
    /\ LET acl == AclOfOption(optional)
           this == [ NoOp EXCEPT !.name = "write", !.path = path, !.arg = optional,
                                 !.contents = contents ]
       IN  IF mimeType = {}
           THEN /\ Begin([ this EXCEPT !.pc = "streamHead",
                                       !.stream = streamHead(contents) ])
                /\ UNCHANGED store
           ELSE IF acl = UnrecognizedVisibility
           THEN /\ Begin([ this EXCEPT !.result = "error", !.value = acl ])
                /\ UNCHANGED store
           ELSE /\ Begin([ this EXCEPT !.result = "ok", !.sent = <<"PutObject">> ])
                /\ store' = PutObject(store, prefixFilePath(path), acl,
                                      concatUint8Arrays(contents))
    /\ iters' = NoIters

\* write, after `await resolveMimeType(path, contents)`: the rejection of
\* resolveMimeType rejects the write; else the arguments of the upload are
\* evaluated, visibilityToAcl among them.
WriteResolved ==
    /\ op.name = "write"
    /\ op.pc = "streamHead"
    /\ op.stream.promise = "resolved"
    /\ \E lookup \in fileTypeFromBuffer(op.stream.head) :
          LET acl == AclOfOption(op.arg)
              type == IF lookup.kind = "match" THEN lookup.mime
                      ELSE ExtOrFallback(op.path, {})
          IN  op' = IF lookup.kind = "throws"
                    THEN [ op EXCEPT !.pc = "done", !.result = "error",
                                     !.value = DetectionFailed ]
                    ELSE IF acl = UnrecognizedVisibility
                    THEN [ op EXCEPT !.pc = "done", !.result = "error",
                                     !.value = acl ]
                    ELSE [ op EXCEPT !.pc = "reading",
                                     !.options = [ ContentType |-> type ] ]
    /\ UNCHANGED <<store, iters, batches, before, prev, nops>>

\* Faulty variant: the upload is given the stream that was passed in, of
\* which the head is already drained, not the one resolveMimeType returned.
UploadBody_RestOnly(s) == SubSeq(s.consumed, Len(s.head) + 1, Len(s.consumed))

\* The Body of the upload after `[mimeType, contents] = await
\* resolveMimeType(path, contents)`: what is read from the returned stream.
UploadBody(s) == s.consumed

\* The upload has read the stream resolveMimeType returned to its end: the
\* object is stored with the bytes it read.
WriteUploaded ==
    /\ op.name = "write"
    /\ op.pc = "reading"
    /\ op.stream.out = <<>>
    /\ op.stream.ended
    /\ op' = [ op EXCEPT !.pc = "done", !.result = "ok", !.sent = <<"PutObject">> ]
    /\ store' = PutObject(store, prefixFilePath(op.path), AclOfOption(op.arg),
                          UploadBody(op.stream))
    /\ UNCHANGED <<iters, batches, before, prev, nops>>

\* read(path): the body GetObject returns; S3 answers NoSuchKey for an
\* object that does not exist.
Read(path) ==
    /\ CanStart
    /\ prefixFilePath(path) \in Keys
    /\ LET key == prefixFilePath(path)
           this == [ NoOp EXCEPT !.name = "read", !.path = path,
                                 !.sent = <<"GetObject">> ]
       IN  IF ~store[key].present
           THEN Begin([ this EXCEPT !.result = "error", !.value = "NoSuchKey" ])
           ELSE Begin([ this EXCEPT !.result = "ok", !.value = store[key].body ])
    /\ iters' = NoIters
    /\ UNCHANGED store

\* createDirectory(path, {directoryVisibility}).
CreateDirectory(path, optional) ==
    /\ CanStart
    /\ prefixDirectoryPath(path) \in Keys
    /\ LET acl == AclOfOption(optional)
           this == [ NoOp EXCEPT !.name = "createDirectory", !.path = path,
                                 !.arg = optional ]
       IN  IF acl = UnrecognizedVisibility
           THEN /\ Begin([ this EXCEPT !.result = "error", !.value = acl ])
                /\ UNCHANGED store
           ELSE /\ Begin([ this EXCEPT !.result = "ok", !.sent = <<"PutObject">> ])
                /\ store' = PutObject(store, prefixDirectoryPath(path), acl, <<>>)
    /\ iters' = NoIters

\* changeVisibility(path, visibility): S3 answers NoSuchKey for an object
\* that does not exist.
ChangeVisibility(path, visibility) ==
    /\ CanStart
    /\ prefixFilePath(path) \in Keys
    /\ LET acl == visibilityToAcl(visibility)
           key == prefixFilePath(path)
           this == [ NoOp EXCEPT !.name = "changeVisibility", !.path = path,
                                 !.arg = {visibility} ]
       IN  IF acl = UnrecognizedVisibility
           THEN /\ Begin([ this EXCEPT !.result = "error", !.value = acl ])
                /\ UNCHANGED store
           ELSE IF ~store[key].present
           THEN /\ Begin([ this EXCEPT !.result = "error", !.value = "NoSuchKey",
                                       !.sent = <<"PutObjectAcl">> ])
                /\ UNCHANGED store
           ELSE /\ Begin([ this EXCEPT !.result = "ok", !.sent = <<"PutObjectAcl">> ])
                /\ store' = PutObjectAcl(store, key, acl)
    /\ iters' = NoIters

\* visibility(path).
QueryVisibility(path) ==
    /\ CanStart
    /\ prefixFilePath(path) \in Keys
    /\ LET key == prefixFilePath(path)
           this == [ NoOp EXCEPT !.name = "visibility", !.path = path ]
       IN  IF ~store[key].present
           THEN Begin([ this EXCEPT !.result = "error", !.value = "NoSuchKey",
                                    !.sent = <<"GetObjectAcl">> ])
           ELSE Begin([ this EXCEPT !.result = "ok", !.sent = <<"GetObjectAcl">>,
                          !.value = VisibilityOfGrants(store[key].grants) ])
    /\ iters' = NoIters
    /\ UNCHANGED store

(***************************************************************************)
(* checksum.                                                               *)
(*                                                                         *)
(* Algorithm names, header values and digests are sequences of characters. *)
(***************************************************************************)
\* String.prototype.toUpperCase on the characters algorithm names are
\* written with: a lower-case letter becomes its capital, anything else
\* stays.
UpperOfChar(c) ==
    CASE c = "a" -> "A" [] c = "c" -> "C" [] c = "d" -> "D" [] c = "e" -> "E"
      [] c = "g" -> "G" [] c = "h" -> "H" [] c = "m" -> "M" [] c = "r" -> "R"
      [] c = "s" -> "S" [] c = "t" -> "T"
      [] OTHER -> c

\* Faulty variant: the name is compared as it was given.
toUpperCase_AsGiven(name) == name

toUpperCase(name) == [ i \in 1..Len(name) |-> UpperOfChar(name[i]) ]

SHA1 == <<"S", "H", "A", "1">>
SHA256 == <<"S", "H", "A", "2", "5", "6">>
CRC32 == <<"C", "R", "C", "3", "2">>
CRC32C == <<"C", "R", "C", "3", "2", "C">>
ETAG == <<"E", "T", "A", "G">>

possibleChecksumAlgos == { SHA1, SHA256, CRC32, CRC32C, ETAG }

\* Faulty variant: every name passes.
isSupportedAlgo_Any(algo) == TRUE

isSupportedAlgo(algo) == algo \in possibleChecksumAlgos

\* The algorithms S3 keeps a checksum for.
StoredChecksumAlgos == possibleChecksumAlgos \ { ETAG }

Quote == "\""

\* The digest S3 computes of a body with an algorithm ("MD5" for the entity
\* tag).  Its value is not computed: it is kept as the algorithm and the
\* body it is the digest of, a non-empty string without quotes.
DigestOf(algo, body) == algo \o <<":">> \o body

\* The entity tag S3 gives an object: the MD5 digest between double quotes.
ETagOf(body) == <<Quote>> \o DigestOf(<<"M", "D", "5">>, body) \o <<Quote>>

\* The names of the fields of a HeadObject response.
ETagField == <<"E", "T", "a", "g">>
ChecksumField(algo) == <<"C", "h", "e", "c", "k", "s", "u", "m">> \o algo

\* The response of S3 HeadObject for an object that exists: the entity
\* tag, and with ChecksumMode ENABLED the checksums S3 holds for the object.
\* A field that is not in the domain is undefined.
HeadObject(object, checksumMode) ==
    LET fields == { ETagField } \cup
                  (IF checksumMode
                   THEN { ChecksumField(a) : a \in object.sums }
                   ELSE {})
    IN  [ f \in fields |->
            IF f = ETagField THEN ETagOf(object.body)
            ELSE DigestOf(CHOOSE a \in object.sums : ChecksumField(a) = f,
                          object.body) ]

\* An optional string: {} when not given, else {value}.
Falsy(optional) == optional = {} \/ optional = { <<>> }

\* options.algo || this.options.defaultChecksumAlgo || 'SHA256'
AlgoOfOptions(algo, defaultChecksumAlgo) ==
    IF ~Falsy(algo) THEN CHOOSE a \in algo : TRUE
    ELSE IF ~Falsy(defaultChecksumAlgo) THEN CHOOSE a \in defaultChecksumAlgo : TRUE
    ELSE SHA256

\* checksum.replace(/^"(.+)"$/, '$1'): a value of at least one character
\* between two double quotes loses the quotes.
StripQuotes(value) ==
    IF Len(value) >= 3 /\ value[1] = Quote /\ value[Len(value)] = Quote
    THEN SubSeq(value, 2, Len(value) - 1)
    ELSE value

ChecksumIsNotAvailable == "ChecksumIsNotAvailable"
UnableToRetrieveChecksum == "Error: Unable to retrieve checksum"

\* checksum(path, {algo}) on an adapter configured with
\* defaultChecksumAlgo.
Checksum(path, algoOption, defaultChecksumAlgo) ==
    /\ CanStart
    /\ prefixFilePath(path) \in Keys
    /\ LET algo == toUpperCase(AlgoOfOptions(algoOption, defaultChecksumAlgo))
           responseKey == IF algo = ETAG THEN ETagField ELSE ChecksumField(algo)
           object == store[prefixFilePath(path)]
           this == [ NoOp EXCEPT
                       !.name = "checksum", !.path = path,
                       !.options = [ algo |-> algoOption,
                                     defaultChecksumAlgo |-> defaultChecksumAlgo ] ]
       IN  IF ~isSupportedAlgo(algo)
           THEN Begin([ this EXCEPT !.result = "error",
                                    !.value = ChecksumIsNotAvailable ])
           ELSE \/ \E error \in HeadObjectErrors(object) :
                     Begin([ this EXCEPT !.result = "error", !.value = error,
                                         !.sent = <<"HeadObject">> ])
                \/ /\ object.present
                   /\ LET response == HeadObject(object, algo # ETAG)
                      IN  IF responseKey \notin DOMAIN response
                          THEN Begin([ this EXCEPT
                                         !.result = "error",
                                         !.value = UnableToRetrieveChecksum,
                                         !.sent = <<"HeadObject">> ])
                          ELSE Begin([ this EXCEPT
                                         !.result = "ok",
                                         !.value = StripQuotes(response[responseKey]),
                                         !.sent = <<"HeadObject">> ])
    /\ iters' = NoIters
    /\ UNCHANGED store

(***************************************************************************)
(* The specifications.                                                     *)
(***************************************************************************)
TypicalStores ==
    { st \in [ Keys -> { Absent } \cup
                 [ present : {TRUE}, grants : { GrantsOfCannedAcl("private") },
                   body : { <<>>, PlainBody }, sums : { {} } ] ] :
         \A k \in Keys :
            st[k].present => (st[k].body = TypicalBody(k) /\ k \notin LargeDirectoryKeys) }

\* The paths of the files whose objects may carry any grants from before
\* the run, in the specification of the visibility operations.
AclStores ==
    LET fileKeys == { prefixFilePath(p) : p \in FilePaths }
        files == [ fileKeys -> { Absent } \cup
                     [ present : {TRUE}, grants : InitialGrants,
                       body : { PlainBody }, sums : { {} } ] ]
    IN  { [ k \in Keys |-> IF k \in fileKeys THEN f[k] ELSE Absent ] : f \in files }

InitWith(stores) ==
    /\ store \in stores
    /\ iters = NoIters
    /\ op = NoOp
    /\ batches = <<>>
    /\ before = store
    /\ prev = Summary(NoOp)
    /\ nops = 0

Init == InitWith(TypicalStores)

InitAcl == InitWith(AclStores)

\* The steps of the list() iterations.
ListStep(i) ==
    \/ ListNext(i)
    \/ ListFetch(i)
    \/ ListYield(i)
    \/ ListEnd(i)

\* The steps of the operations other than list.
OperationStep ==
    \/ \E path \in DirPaths : DeleteDirectoryStart(path)
    \/ ListingFetch
    \/ DeleteDirectoryItem
    \/ DeleteDirectoryLoopEnd
    \/ \E i \in 1..Len(batches) : BatchSettle(i)
    \/ DeleteDirectoryResolve
    \/ DeleteDirectoryReject
    \/ \E path \in DirPaths : DirectoryExistsStart(path)
    \/ DirectoryExistsItem
    \/ DirectoryExistsEnd
    \/ \E path \in FilePaths : DeleteFile(path)
    \/ \E path \in FilePaths, optional \in OptionalVisibility : Write(path, PlainContents, {"text/plain"}, optional)
    \/ \E path \in DirPaths, optional \in OptionalVisibility :
          CreateDirectory(path, optional)
    \/ \E path \in FilePaths, visibility \in VisibilityValues :
          ChangeVisibility(path, visibility)
    \/ \E path \in FilePaths : QueryVisibility(path)

\* One client: operations one after the other, one list() iteration.
Next ==
    \/ OperationStep

Spec == Init /\ [][Next]_vars

\* The same client over a bucket whose files carry any grants.
SpecAcl == InitAcl /\ [][Next]_vars

\* A client that only reads: list(), holding up to two iterations of the
\* same listing at a time, and directoryExists.
NextList ==
    \/ \E path \in DirPaths, deep \in BOOLEAN : ListStart(path, deep)
    \/ ListStartSecond
    \/ \E i \in Iters : ListStep(i)
    \/ \E i \in Iters : ListStop(i)
    \/ \E path \in DirPaths : DirectoryExistsStart(path)
    \/ ListingFetch
    \/ DirectoryExistsItem
    \/ DirectoryExistsEnd

SpecList == Init /\ [][NextList]_vars

\* A client that lists with one iteration at a time.  The consumer is free
\* to stop early; while it does not, it keeps asking, and an asynchronous
\* generator that was asked runs on: the steps of the iteration are weakly
\* fair.
NextPaging ==
    \/ \E path \in DirPaths, deep \in BOOLEAN : ListStart(path, deep)
    \/ ListStep(1)
    \/ ListStop(1)

SpecPaging ==
    /\ Init
    /\ [][NextPaging]_vars
    /\ WF_vars(ListStep(1))

\* The algorithm names a caller or the configuration may give, in several
\* spellings: supported ones, unsupported ones and the empty string.
AlgoNames ==
    { <<>>,
      ETAG, <<"e", "t", "a", "g">>, <<"E", "t", "a", "g">>,
      SHA256, <<"s", "h", "a", "2", "5", "6">>,
      <<"s", "h", "a", "1">>,
      <<"c", "r", "c", "3", "2">>, <<"C", "r", "c", "3", "2", "c">>,
      <<"m", "d", "5">>, <<"M", "D", "5">>,
      <<"s", "h", "a", "5", "1", "2">> }

OptionalAlgo == { {} } \cup { {a} : a \in AlgoNames }

\* The defaultChecksumAlgo the adapter may be configured with.
DefaultAlgos == { {}, { <<"c", "r", "c", "3", "2">> }, { <<"m", "d", "5">> } }

\* Buckets whose files were stored with no checksum, with a SHA256 checksum
\* or with every checksum; the two files differ in content.
ChecksumStores ==
    LET fileKeys == { prefixFilePath(p) : p \in FilePaths }
        files == [ fileKeys -> { Absent } \cup
                     [ present : {TRUE}, grants : { GrantsOfCannedAcl("private") },
                       body : { PlainBody, <<"y", "x">> },
                       sums : { {}, { SHA256 }, StoredChecksumAlgos } ] ]
    IN  { [ k \in Keys |-> IF k \in fileKeys THEN f[k] ELSE Absent ] :
            f \in { g \in files :
                      \A k \in fileKeys :
                         g[k].present =>
                            g[k].body = IF k = prefixFilePath(<<"a", "b">>)
                                        THEN <<"y", "x">> ELSE PlainBody } }

InitChecksum == InitWith(ChecksumStores)

\* A client that asks for checksums and writes files.
NextChecksum ==
    \/ \E path \in FilePaths, algo \in OptionalAlgo, default \in DefaultAlgos :
          Checksum(path, algo, default)
    \/ \E path \in FilePaths : Write(path, PlainContents, {"text/plain"}, {})

SpecChecksum == InitChecksum /\ [][NextChecksum]_vars

\* The bucket that holds every key: the directory "a" is large.
LargeDirectoryStores ==
    { [ k \in Keys |-> [ present |-> TRUE, grants |-> GrantsOfCannedAcl("private"),
                         body |-> TypicalBody(k), sums |-> {} ] ] }

InitLargeDirectory == InitWith(LargeDirectoryStores)

\* A client that deletes directories of that bucket.
NextLargeDirectory ==
    \/ \E path \in DirPaths : DeleteDirectoryStart(path)
    \/ ListingFetch
    \/ DeleteDirectoryItem
    \/ DeleteDirectoryLoopEnd
    \/ \E i \in 1..Len(batches) : BatchSettle(i)
    \/ DeleteDirectoryResolve
    \/ DeleteDirectoryReject

SpecLargeDirectory == InitLargeDirectory /\ [][NextLargeDirectory]_vars

\* A client that creates directories, asks what exists and lists.
NextExists ==
    \/ \E path \in FilePaths : FileExists(path)
    \/ \E path \in DirPaths : DirectoryExistsStart(path)
    \/ ListingFetch
    \/ DirectoryExistsItem
    \/ DirectoryExistsEnd
    \/ DirectoryExistsFails
    \/ \E path \in DirPaths, optional \in { {}, {Visibility.PUBLIC} } :
          CreateDirectory(path, optional)
    \/ \E path \in DirPaths, deep \in BOOLEAN : ListStart(path, deep)
    \/ ListStep(1)

SpecExists == Init /\ [][NextExists]_vars

\* The bytes of a text file and of a PNG image; within each, every byte
\* differs from the others.
TextBytes == <<"t", "1", "2", "3", "4", "5", "6">>
PngBytes == Magic \o <<"1", "2", "3", "4", "5">>

\* The stream that emits the given bytes in chunks that end at the given
\* positions and at the last byte.
ChunksAt(bytes, cuts) ==
    LET ends == cuts \cup {Len(bytes)}
        end(i) == CHOOSE e \in ends : Cardinality({ x \in ends : x <= e }) = i
    IN  IF bytes = <<>> THEN <<>>
        ELSE [ i \in 1..Cardinality(ends) |->
                 SubSeq(bytes, IF i = 1 THEN 1 ELSE end(i - 1) + 1, end(i)) ]

\* The streams given to resolveMimeType: the first bytes, up to MaxBytes, of
\* the text and of the image, in every division into chunks.
Streams ==
    UNION { UNION { { ChunksAt(SubSeq(bytes, 1, n), cuts) :
                        cuts \in SUBSET (1..(n - 1)) } :
                    n \in 0..MaxBytes } :
            bytes \in { TextBytes, PngBytes } }

\* The streams given to write: the image in one chunk, and the text in at
\* most two chunks when it is empty, one byte long, as long as the head
\* size or of MaxBytes bytes.
WrittenStreams ==
    { stream \in Streams :
        LET bytes == concatUint8Arrays(stream)
        IN  \/ stream = << SubSeq(PngBytes, 1, MaxBytes) >>
            \/ /\ Len(stream) <= 2
               /\ Len(bytes) \in {0, 1, HeadSize, MaxBytes}
               /\ bytes = SubSeq(TextBytes, 1, Len(bytes)) }

\* File names with a known extension, with none, and with nothing but a
\* leading dot.
Filenames ==
    { <<"a", ".", "t", "x", "t">>, <<"a", "b">>, <<"a", "/", ".", "t", "x", "t">> }

\* An optional fallback MIME type.
OptionalFallback == { {}, {"application/octet-stream"} }

\* The bucket that holds one file.
OneFileStores ==
    { [ k \in Keys |->
          IF k = prefixFilePath(<<"a", "/", "a">>)
          THEN [ present |-> TRUE, grants |-> GrantsOfCannedAcl("private"),
                 body |-> PlainBody, sums |-> {} ]
          ELSE Absent ] }

InitOneFile == InitWith(OneFileStores)

\* A caller of resolveMimeType that reads the stream it gets back.
NextResolve ==
    \/ \E filename \in Filenames, stream \in Streams, fallback \in OptionalFallback :
          ResolveMimeTypeStart(filename, stream, fallback)
    \/ StreamData
    \/ StreamEnd
    \/ ResolveMimeTypeReturn
    \/ ConsumerRead
    \/ ConsumerEnd

SpecResolve == InitOneFile /\ [][NextResolve]_vars

\* The streams given to resolveMimeType whose source may fail: the text in
\* every division into chunks.
FailingStreams ==
    { stream \in Streams :
        LET bytes == concatUint8Arrays(stream)
        IN  bytes = SubSeq(TextBytes, 1, Len(bytes)) }

\* The same caller, given sources that may raise an error at any moment
\* before their end.  What a stream has to emit it emits, the promise that
\* can settle settles and the consumer reads on: these steps are weakly
\* fair.  Whether a source fails is not.
NextResolveFailing ==
    \/ \E filename \in Filenames, stream \in FailingStreams :
          ResolveMimeTypeStart(filename, stream, {})
    \/ StreamData
    \/ StreamEnd
    \/ StreamError
    \/ ResolveMimeTypeReturn
    \/ ConsumerRead
    \/ ConsumerEnd

SpecResolveFailing ==
    /\ InitOneFile
    /\ [][NextResolveFailing]_vars
    /\ WF_vars(StreamData)
    /\ WF_vars(StreamEnd)
    /\ WF_vars(ResolveMimeTypeReturn)
    /\ WF_vars(ConsumerRead)
    /\ WF_vars(ConsumerEnd)

\* The path of the file that is written.
WrittenPaths == { <<"a", "b">> }

\* A client that writes a file, with and without a MIME type and with each
\* visibility or none, and reads files.
NextContent ==
    \/ \E path \in WrittenPaths, contents \in WrittenStreams,
          mimeType \in { {}, {"text/plain"} },
          optional \in { {}, {Visibility.PUBLIC}, {Visibility.PRIVATE} } :
          Write(path, contents, mimeType, optional)
    \/ StreamData
    \/ StreamEnd
    \/ WriteResolved
    \/ ConsumerRead
    \/ WriteUploaded
    \/ \E path \in FilePaths : Read(path)

SpecContent == InitOneFile /\ [][NextContent]_vars

\* The optional item cap of listObjects.
OptionalMaxKeys == { {}, {1}, {2} }

\* A client that iterates listObjects itself, with every combination of
\* its options, to the end.
NextListObjects ==
    \/ \E path \in DirPaths, deep \in BOOLEAN, includePrefixes \in BOOLEAN,
          includeSelf \in BOOLEAN, maxKeys \in OptionalMaxKeys :
          ListObjectsStart(path, deep, includePrefixes, includeSelf, maxKeys)
    \/ ListStep(1)

SpecListObjects == Init /\ [][NextListObjects]_vars

(***************************************************************************)
(* Properties.                                                             *)
(***************************************************************************)
RECURSIVE Concat(_)
Concat(seqs) == IF seqs = <<>> THEN <<>> ELSE Head(seqs) \o Concat(Tail(seqs))

Range(seq) == { seq[i] : i \in 1..Len(seq) }

NoDuplicates(seq) == \A i, j \in 1..Len(seq) : seq[i] = seq[j] => i = j

\* The keys of all delete batches sent so far, in the order sent.
SentKeys == Concat([ i \in 1..Len(batches) |-> batches[i].keys ])

\* The keys the listing of the operation has yielded, in order.
ListedKeys == [ i \in 1..Len(op.listing.yielded) |-> op.listing.yielded[i].name ]

\* The keys of st that are the directory marker of path or lie beneath it.
KeysBeneath(st, path) ==
    { k \in Keys : st[k].present /\ IsPrefixOf(path \o <<Sep>>, stripFilePath(k)) }

DeleteDirectoryDone ==
    op.name = "deleteDirectory" /\ op.pc = "done"

C2_BatchWithinLimit ==
    \A i \in 1..Len(batches) : Len(batches[i].keys) <= MaxBatch

\* C3: deleteFile and deleteDirectory on a path that does not exist complete
\* without error and leave the bucket unchanged, deleteDirectory without
\* sending a delete batch; and a delete operation that follows the same
\* successful delete operation on the same path succeeds and changes nothing.
C3_DeleteIdempotent ==
    /\ (op.name = "deleteFile" /\ op.pc = "done"
          /\ ~before[prefixFilePath(op.path)].present) =>
          (op.result = "ok" /\ store = before)
    /\ (DeleteDirectoryDone /\ KeysBeneath(before, op.path) = {}) =>
          (op.result = "ok" /\ store = before /\ batches = <<>>)
    /\ (op.pc = "done" /\ op.name \in {"deleteFile", "deleteDirectory"}
          /\ prev.name = op.name /\ prev.path = op.path /\ prev.result = "ok") =>
          /\ op.result = "ok"
          /\ store = before
          /\ op.name = "deleteDirectory" => batches = <<>>

\* C3 witness: a second deleteDirectory of the same path has completed
\* right after a first one that succeeded.
C3_Witness ==
    /\ DeleteDirectoryDone
    /\ prev.name = "deleteDirectory" /\ prev.path = op.path /\ prev.result = "ok"

\* C4: deleteDirectory has not resolved while one of its delete batches is
\* still in flight.
C4_ResolvedAfterAllBatches ==
    (DeleteDirectoryDone /\ op.result = "ok") =>
        \A i \in 1..Len(batches) : batches[i].state = "fulfilled"

\* C4 witness: deleteDirectory resolved and it had dispatched a batch.
C4_Witness ==
    /\ DeleteDirectoryDone /\ op.result = "ok"
    /\ Len(batches) >= 1

\* C5: when deleteDirectory has rejected, none of its delete batches is
\* still in flight, its error is the error of a batch that failed, and what
\* the successful batches removed is absent.
C5_RejectedAfterAllSettled ==
    (DeleteDirectoryDone /\ op.result = "error") =>
        /\ PendingBatches = {}
        /\ op.failed \in Rejected(batches)
        /\ op.value = batches[op.failed].error
        /\ \A i \in 1..Len(batches) :
              batches[i].state = "fulfilled" =>
                 \A j \in 1..Len(batches[i].keys) : ~store[batches[i].keys[j]].present

(***************************************************************************)
(* Listing.                                                                *)
(***************************************************************************)
FileEntry(path) == [type |-> "file", path |-> path]
DirectoryEntry(path) == [type |-> "directory", path |-> path]

\* The logical paths (root prefix removed) of the objects of st strictly
\* beneath the directory path, its own marker excluded.
PathsBeneath(st, path) ==
    { stripFilePath(k) : k \in { x \in KeysBeneath(st, path) :
                                   Len(stripFilePath(x)) > Len(path) + 1 } }

\* The part of logical path l after the directory path and its separator.
Below(l, path) == SubSeq(l, Len(path) + 2, Len(l))

HasSep(s) == \E i \in 1..Len(s) : s[i] = Sep

\* The immediate children of path: the files directly under it and the
\* directories directly under it, whether they have a marker object or are
\* only the common prefix of other keys.
ChildEntries(st, path) ==
    { FileEntry(l) : l \in { x \in PathsBeneath(st, path) : ~HasSep(Below(x, path)) } }
    \cup
    { DirectoryEntry(SubSeq(l, 1, Len(path) + FirstSep(Below(l, path)))) :
        l \in { x \in PathsBeneath(st, path) : HasSep(Below(x, path)) } }

\* All descendants of path: every file beneath it and every directory
\* beneath it, with or without a marker object.
DescendantEntries(st, path) ==
    { FileEntry(l) : l \in { x \in PathsBeneath(st, path) : ~EndsWithSep(x) } }
    \cup
    UNION { { DirectoryEntry(SubSeq(l, 1, i - 1)) :
                i \in { j \in (Len(path) + 2)..Len(l) : l[j] = Sep } } :
            l \in PathsBeneath(st, path) }

\* C6: a list() iteration consumed to its end has yielded, each
\* once, exactly the immediate children of the path when deep is false and
\* all descendants of the path, directories included, when deep is true.
C6_ListYieldsAllDescendants ==
    \A i \in Iters :
        iters[i].status = "done" =>
           /\ NoDuplicates(Listed(iters[i]))
           /\ Range(Listed(iters[i])) =
                 IF iters[i].deep THEN DescendantEntries(store, iters[i].path)
                 ELSE ChildEntries(store, iters[i].path)

(***************************************************************************)
(* Pagination.                                                             *)
(***************************************************************************)
IterActive(i) == iters[i].status \in {"suspended", "running"}

IterEnded(i) == iters[i].status \in {"done", "closed"}

\* The first request carries no token, each later request the token of the
\* response before it, and a request is sent after a response only when that
\* response carried a token.
TokensChained(g) ==
    /\ Len(g.requests) = Len(g.responses)
    /\ \A k \in 1..Len(g.requests) :
          IF k = 1 THEN g.requests[k] = NoToken
          ELSE g.requests[k] = g.responses[k - 1] /\ g.requests[k] # NoToken

\* The entries received, without the marker of the listed directory itself
\* when the call excludes it.
ReceivedButSelf(g) ==
    LET NotSelf(item) == g.includeSelf \/ item.name # RootPrefix \o g.path \o <<Sep>>
    IN  SelectSeq(g.received, NotSelf)

ListingNames(st, g) ==
    (ContentNames(st, g.prefix, ~g.deep)
       \cup (IF g.includePrefixes THEN CommonPrefixNames(st, g.prefix, ~g.deep) ELSE {}))
    \ (IF g.includeSelf THEN {} ELSE {g.prefix})

YieldedNames(g) == [ k \in 1..Len(g.yielded) |-> g.yielded[k].name ]

\* C8: of two list() iterations of the same listing over an unchanged
\* bucket, each one consumed to its end has yielded, each once, every name
\* the backend holds for the listing, the same entries as the other, and a
\* step of one leaves the other as it was.
C8_IndependentIterations ==
    /\ [](\A i \in Iters :
            iters[i].status = "done" =>
               /\ NoDuplicates(YieldedNames(iters[i]))
               /\ Range(YieldedNames(iters[i])) = ListingNames(store, iters[i])
               /\ \A j \in Iters :
                     iters[j].status = "done" =>
                        Range(Listed(iters[i])) = Range(Listed(iters[j])))
    /\ [][(\A i \in Iters : iters[i].status # "none" /\ iters'[i].status # "none")
            => (iters'[1] = iters[1] \/ iters'[2] = iters[2])]_vars

\* C8 witness: two iterations of the same listing both ended after being
\* advanced in turn, with their pages cut differently.
C8_Witness ==
    /\ iters[1].status = "done" /\ iters[2].status = "done"
    /\ Len(iters[1].yielded) >= 2
    /\ iters[1].requests # iters[2].requests

\* A step that takes a generator from g to h sent a page request although
\* the consumer was not waiting for an item, or items of the pages before
\* were still to be handed over.
FetchedEarly(g, h) ==
    /\ Len(h.requests) > Len(g.requests)
    /\ ~(/\ g.status = "running"
         /\ g.asked > Len(g.yielded)
         /\ Len(g.yielded) = Len(ReceivedButSelf(g)))

\* A step that takes a generator from g to h sent a page request although
\* the generator had ended or had been closed.
FetchedAfterEnd(g, h) ==
    /\ g.status \in {"done", "closed"}
    /\ h.path = g.path
    /\ Len(h.requests) > Len(g.requests)

\* C9: a generator that was never asked for an item has sent no request; a
\* page request is sent only while the consumer waits for an item it asked
\* for and after every item of the pages before was handed over; and a
\* generator that ended or that its consumer closed sends no request.
C9_LazyListing ==
    /\ [](\A i \in Iters : Len(iters[i].requests) > 0 => iters[i].asked > 0)
    /\ [](Len(op.listing.requests) > 0 => op.listing.asked > 0)
    /\ [][/\ \A i \in Iters : ~FetchedEarly(iters[i], iters'[i])
          /\ \A i \in Iters : ~FetchedAfterEnd(iters[i], iters'[i])
          /\ ~FetchedEarly(op.listing, op'.listing)
          /\ ~FetchedAfterEnd(op.listing, op'.listing)]_vars

\* C9 witness: the consumer stopped after the first item of a listing that
\* had more pages, and one request was sent.
C9_Witness ==
    /\ iters[1].status = "closed"
    /\ iters[1].shouldContinue
    /\ Len(iters[1].requests) = 1
    /\ Len(iters[1].yielded) = 1

(***************************************************************************)
(* Visibility.                                                             *)
(***************************************************************************)
SetsVisibility(o) ==
    /\ o.name \in {"write", "changeVisibility"}
    /\ o.result = "ok"
    /\ o.arg \in { {Visibility.PUBLIC}, {Visibility.PRIVATE} }

\* C10: after write(p, content, {visibility: V}) or changeVisibility(p, V)
\* succeeded with V PUBLIC or PRIVATE, the object holds the grants of the
\* canned ACL public-read for PUBLIC and private for PRIVATE, and a
\* visibility(p) that follows returns V; and visibility(p) returns PUBLIC
\* exactly when the grants of the object hold a READ grant to all users.
C10_VisibilityRoundTrip ==
    /\ (op.pc = "done" /\ SetsVisibility(op)) =>
          store[prefixFilePath(op.path)].grants =
              IF op.arg = {Visibility.PUBLIC}
              THEN { <<Owner, "FULL_CONTROL">>, <<AllUsers, "READ">> }
              ELSE { <<Owner, "FULL_CONTROL">> }
    /\ (op.name = "visibility" /\ SetsVisibility(prev) /\ prev.path = op.path) =>
          (op.result = "ok" /\ {op.value} = prev.arg)
    /\ (op.name = "visibility" /\ op.result = "ok") =>
          (op.value = Visibility.PUBLIC
             <=> <<AllUsers, "READ">> \in before[prefixFilePath(op.path)].grants)
    /\ (op.name = "visibility" /\ op.result = "ok") =>
          op.value \in {Visibility.PUBLIC, Visibility.PRIVATE}

\* C10 witness: visibility(p) returned PUBLIC right after a successful
\* changeVisibility(p, PUBLIC).
C10_Witness ==
    /\ op.name = "visibility" /\ op.result = "ok" /\ op.value = Visibility.PUBLIC
    /\ prev.name = "changeVisibility" /\ prev.path = op.path
    /\ prev.arg = {Visibility.PUBLIC} /\ prev.result = "ok"

(***************************************************************************)
(* Invalid visibility.                                                     *)
(***************************************************************************)
GivenVisibility(o) == o.name \in {"write", "createDirectory", "changeVisibility"}

\* C11: a write, createDirectory or changeVisibility that was given a
\* visibility other than PUBLIC and PRIVATE (another string or the empty
\* string) has failed with the unrecognized-visibility error, has sent no
\* command to the backend and has left the bucket as it was.
C11_InvalidVisibilityRejected ==
    (op.pc = "done" /\ GivenVisibility(op)
       /\ op.arg # {} /\ op.arg \cap {Visibility.PUBLIC, Visibility.PRIVATE} = {}) =>
        /\ op.result = "error"
        /\ op.value = UnrecognizedVisibility
        /\ op.sent = <<>>
        /\ store = before

(***************************************************************************)
(* Checksums.                                                              *)
(***************************************************************************)
ChecksumDone == op.name = "checksum" /\ op.pc = "done"

Given(optional) == optional # {} /\ optional # { <<>> }

\* The algorithm name a checksum call is to work with: the one of the call,
\* else the one of the configuration, else SHA256.
NameAskedFor(o) ==
    IF Given(o.options.algo) THEN CHOOSE a \in o.options.algo : TRUE
    ELSE IF Given(o.options.defaultChecksumAlgo)
         THEN CHOOSE a \in o.options.defaultChecksumAlgo : TRUE
         ELSE <<"S", "H", "A", "2", "5", "6">>

\* The same name in capitals.
RequestedAlgo(o) == [ i \in 1..Len(NameAskedFor(o)) |-> UpperOfChar(NameAskedFor(o)[i]) ]

\* C12: a checksum call whose algorithm name in capitals is not one of
\* SHA1, SHA256, CRC32, CRC32C, ETAG has failed with ChecksumIsNotAvailable
\* and has sent no command to the backend.
C12_UnsupportedAlgoNotAvailable ==
    (ChecksumDone /\ RequestedAlgo(op) \notin { SHA1, SHA256, CRC32, CRC32C, ETAG }) =>
        /\ op.result = "error"
        /\ op.value = ChecksumIsNotAvailable
        /\ op.sent = <<>>

\* C12 witness: checksum was asked with md5 and failed.
C12_Witness ==
    /\ ChecksumDone
    /\ op.options.algo = { <<"m", "d", "5">> }
    /\ op.result = "error" /\ op.value = ChecksumIsNotAvailable

\* The object a checksum call was about, as it was when the call was made.
ChecksumObject == before[prefixFilePath(op.path)]

\* C13: a checksum call with a supported algorithm for which the backend
\* holds no digest of the object has failed with ChecksumIsNotAvailable,
\* unless it failed with an error of the backend, and it has sent nothing
\* but the metadata request.
C13_MissingDigestNotAvailable ==
    (/\ ChecksumDone
     /\ RequestedAlgo(op) \in { SHA1, SHA256, CRC32, CRC32C }
     /\ ChecksumObject.present
     /\ RequestedAlgo(op) \notin ChecksumObject.sums) =>
        /\ op.result = "error"
        /\ op.value \in { ChecksumIsNotAvailable } \cup HeadObjectErrors(ChecksumObject)
        /\ op.sent = <<"HeadObject">>

\* C14: a checksum call that succeeded has returned, for a name that in
\* capitals is ETAG, the entity tag of the object without its quotes, and
\* for any other name the checksum field of that algorithm in capitals,
\* where the name is the one of the call, else the one of the
\* configuration, else SHA256; and no spelling of a supported name is
\* refused as unsupported.
C14_ChecksumByUpperCaseName ==
    /\ (ChecksumDone /\ op.result = "ok") =>
          /\ ChecksumObject.present
          /\ IF RequestedAlgo(op) = <<"E", "T", "A", "G">>
             THEN <<Quote>> \o op.value \o <<Quote>> = ETagOf(ChecksumObject.body)
             ELSE /\ RequestedAlgo(op) \in ChecksumObject.sums
                  /\ op.value = DigestOf(RequestedAlgo(op), ChecksumObject.body)
    /\ (ChecksumDone /\ RequestedAlgo(op) \in { SHA1, SHA256, CRC32, CRC32C, ETAG }) =>
          op.value # ChecksumIsNotAvailable

\* C14 witness: right after a file was written, checksum with the name
\* 'etag' returned the MD5 digest of what was written, and no quotes.
C14_Witness ==
    /\ ChecksumDone /\ op.result = "ok"
    /\ op.options.algo = { <<"e", "t", "a", "g">> }
    /\ prev.name = "write" /\ prev.path = op.path /\ prev.result = "ok"
    /\ op.value = DigestOf(<<"M", "D", "5">>, PlainBody)

(***************************************************************************)
(* Existence checks.                                                       *)
(***************************************************************************)
ExistsDone(name) == op.name = name /\ op.pc = "done"

Boolean(b) == IF b THEN "true" ELSE "false"

\* C15: fileExists and directoryExists that the backend answered without
\* error, or with not-found, have returned whether the object exists, for
\* directoryExists whether an object exists that is the marker of the path
\* or lies beneath it; and when the backend answered with another error,
\* the call has failed with that error.
C15_ExistenceChecks ==
    /\ ExistsDone("fileExists") =>
          IF op.backendError \in { "", NotFound }
          THEN /\ op.result = "ok"
               /\ op.value = Boolean(before[prefixFilePath(op.path)].present)
          ELSE op.result = "error" /\ op.value = op.backendError
    /\ ExistsDone("directoryExists") =>
          IF op.backendError = ""
          THEN /\ op.result = "ok"
               /\ op.value = Boolean(KeysBeneath(before, op.path) # {})
          ELSE op.result = "error" /\ op.value = op.backendError

\* C15 witness: fileExists of a path without object returned false after
\* the backend answered not-found.
C15_Witness ==
    /\ ExistsDone("fileExists")
    /\ op.backendError = NotFound
    /\ op.result = "ok" /\ op.value = "false"

(***************************************************************************)
(* Directory markers.                                                      *)
(***************************************************************************)
AfterCreateDirectory ==
    prev.name = "createDirectory" /\ prev.path = op.path /\ prev.result = "ok"

\* C19: when createDirectory(p) has succeeded, the bucket holds a
\* zero-length object whose key is p's key with the separator at its end; a
\* directoryExists(p) that follows and that the backend answers returns
\* true; and a list(p) that follows and is consumed to its end, with
\* nothing in the bucket beneath p but the marker, has yielded nothing.  No
\* list() iteration ever yields the marker of the directory it lists.
C19_MarkerNotListed ==
    /\ (op.name = "createDirectory" /\ op.pc = "done" /\ op.result = "ok") =>
          /\ EndsWithSep(prefixDirectoryPath(op.path))
          /\ store[prefixDirectoryPath(op.path)].present
          /\ store[prefixDirectoryPath(op.path)].body = <<>>
    /\ (ExistsDone("directoryExists") /\ AfterCreateDirectory /\ op.backendError = "") =>
          (op.result = "ok" /\ op.value = "true")
    /\ (op.name = "list" /\ AfterCreateDirectory /\ iters[1].status = "done"
          /\ KeysBeneath(store, op.path) = { prefixDirectoryPath(op.path) }) =>
          iters[1].yielded = <<>>
    /\ \A i \in Iters : \A k \in 1..Len(iters[i].yielded) :
          iters[i].yielded[k].name # RootPrefix \o iters[i].path \o <<Sep>>

\* C19 witness: a directory was created where nothing was, the list() that
\* followed received the marker from the backend and ended without an
\* entry.
C19_Witness ==
    /\ op.name = "list" /\ AfterCreateDirectory
    /\ iters[1].status = "done"
    /\ KeysBeneath(store, op.path) = { prefixDirectoryPath(op.path) }
    /\ Len(iters[1].received) = 1
    /\ iters[1].yielded = <<>>

(***************************************************************************)
(* Concurrent delete batches.                                              *)
(***************************************************************************)
DeleteDirectoryListing == op.name = "deleteDirectory" /\ op.pc = "listing"

\* C20: the step of deleteDirectory that dispatches a delete batch puts the
\* new request in flight and leaves the requests dispatched before as they
\* are, in flight or settled; and batches in flight never hold the loop up:
\* whenever the listing has an item for the loop, or has ended, the turn of
\* the loop that may dispatch the next batch can be taken.
C20_BatchesNotSerialized ==
    /\ [][Len(batches') > Len(batches) =>
            /\ batches'[Len(batches')].state = "pending"
            /\ SubSeq(batches', 1, Len(batches)) = batches]_vars
    /\ []((DeleteDirectoryListing /\ CanYield(op.listing)) => ENABLED DeleteDirectoryItem)
    /\ []((DeleteDirectoryListing /\ CanReturn(op.listing)) => ENABLED DeleteDirectoryLoopEnd)

\* C20 witness: two delete batches are in flight and the loop of
\* deleteDirectory is still listing, with keys of the directory to come.
C20_Witness ==
    /\ DeleteDirectoryListing
    /\ Cardinality(PendingBatches) >= 2
    /\ Len(ListedKeys) < Cardinality(KeysBeneath(before, op.path))

(***************************************************************************)
(* resolveMimeType and the content of files.                               *)
(***************************************************************************)
\* The stream resolveMimeType returned has been read to its end.
ReplayRead == op.name = "resolveMimeType" /\ op.pc = "done" /\ op.result = "ok"

\* C17: the stream resolveMimeType returns delivers exactly the bytes of
\* the stream it was given, in order, whatever the length of that stream
\* and its division into chunks, to a consumer that starts to read once
\* resolveMimeType has returned: what the consumer has read is at any
\* moment the first bytes of the original followed in outputStream and in
\* the source by all the others, when it sees the end it has read them all,
\* and until then a step of the stream or of the consumer is possible.
C17_ReplayDeliversOriginal ==
    /\ ReplayRead => op.stream.consumed = concatUint8Arrays(op.contents)
    /\ (op.name = "resolveMimeType" /\ op.pc \in {"streamHead", "reading"}) =>
           /\ op.stream.consumed \o concatUint8Arrays(op.stream.out)
                 \o concatUint8Arrays(op.stream.source)
                = concatUint8Arrays(op.contents)
           /\ (op.pc = "streamHead" => op.stream.consumed = <<>>)
           /\ \/ op.stream.source # <<>> /\ Flowing(op.stream)
              \/ op.stream.source = <<>> /\ ~op.stream.ended
              \/ op.pc = "streamHead" /\ op.stream.promise = "resolved"
              \/ op.pc = "reading" /\ op.stream.out # <<>>
              \/ op.pc = "reading" /\ op.stream.out = <<>> /\ op.stream.ended

\* A stream of more bytes than the high-water mark, in three chunks or
\* more, has been sniffed and read to its end.
C17_Witness ==
    /\ ReplayRead
    /\ Len(op.contents) >= 3
    /\ Len(op.stream.consumed) > HighWaterMark
    /\ Len(op.stream.head) < Len(op.stream.consumed)

\* resolveMimeType has gone past the content sniffing.
Sniffed == op.name = "resolveMimeType" /\ op.pc \in {"reading", "done"}

\* C18: when the content sniffing of resolveMimeType fails, the failure
\* counts as no match, not as an error: whenever the sniffing found no type,
\* because it recognised nothing or because it failed, resolveMimeType
\* returns the type of the filename's extension, else the caller's
\* fallback, else undefined, together with the replay stream.
C18_SniffFailureIsNoMatch ==
    (Sniffed /\ op.options.lookup.kind # "match") =>
        /\ op.result = "ok"
        /\ op.value = ExtOrFallback(op.path, op.arg)

\* A read(p) that follows a write to p that succeeded.
ReadAfterWrite ==
    /\ op.name = "read"
    /\ prev.name = "write"
    /\ prev.result = "ok"
    /\ prev.path = op.path

\* C16: after write(p, content, options) has succeeded, read(p) yields
\* exactly the bytes of content, in order, whatever the visibility given
\* (PUBLIC, PRIVATE or none) and whether the MIME type was given or the
\* content went through resolveMimeType; and already at the end of the
\* write the object holds those bytes.
C16_WriteReadRoundTrip ==
    /\ ReadAfterWrite => (op.result = "ok" /\ op.value = prev.bytes)
    /\ (op.name = "write" /\ op.pc = "done" /\ op.result = "ok") =>
          store[prefixFilePath(op.path)].body = concatUint8Arrays(op.contents)

\* A file written with visibility PUBLIC and no MIME type, of more bytes
\* than the high-water mark, has been read back.
C16_Witness ==
    /\ ReadAfterWrite
    /\ prev.resolved
    /\ prev.arg = {Visibility.PUBLIC}
    /\ Len(prev.bytes) > HighWaterMark
    /\ op.value = prev.bytes
    /\ store[prefixFilePath(op.path)].grants = GrantsOfCannedAcl("public-read")
    /\ before[prefixFilePath(op.path)].body = op.value

(***************************************************************************)
(* listObjects called with any options.                                    *)
(***************************************************************************)
\* The token of the last response a generator received.
LastToken(g) == g.responses[Len(g.responses)]

\* The entries received that the generator is asked to yield: the prefixes
\* only when includePrefixes, the listed directory itself only when
\* includeSelf.
ToYield(g) ==
    LET Keep(item) == /\ (item.type = "prefix" => g.includePrefixes)
                      /\ NotSkipped(g, item)
    IN  SelectSeq(g.received, Keep)

\* C21: the end of a listing is signalled by the absence of a continuation
\* token.  A page is requested after a response only when that response
\* carried a token; after a response without token no request is possible,
\* the generator can only yield what is left of that page and return, and
\* when it has returned it has yielded the entries of every page; while the
\* last response carried a token (and no cap is given) the generator that
\* has yielded its page fetches the next.
C21_NoTokenEndsListing ==
    \A i \in Iters :
       LET g == iters[i]
       IN  g.responses # <<>> =>
             /\ Len(g.requests) = Len(g.responses)
             /\ \A k \in 1..(Len(g.responses) - 1) : g.responses[k] # NoToken
             /\ LastToken(g) = NoToken =>
                   /\ ~CanFetch(g)
                   /\ (g.status = "running" /\ Pending(g) = <<>>) => CanReturn(g)
                   /\ g.status = "done" => g.yielded = ToYield(g)
             /\ (LastToken(g) # NoToken /\ g.maxKeys = {}) =>
                   /\ g.status # "done"
                   /\ (g.status = "running" /\ Pending(g) = <<>>) => CanFetch(g)

\* A listing without cap has ended after three pages or more, the last
\* without token.
C21_Witness ==
    /\ iters[1].status = "done"
    /\ iters[1].maxKeys = {}
    /\ Len(iters[1].responses) >= 3
    /\ LastToken(iters[1]) = NoToken
    /\ Len(iters[1].yielded) >= 3

(***************************************************************************)
(* The frame of deleteDirectory.                                           *)
(***************************************************************************)
\* The key is the marker of the directory or lies beneath it.
AtOrBeneath(key, path) == IsPrefixOf(prefixDirectoryPath(path), key)

\* C22: deleteDirectory(p) deletes only keys that are p's directory marker
\* or lie beneath it.  At every moment of a deleteDirectory(p), and after
\* it, every key listed and every key of a delete batch is the marker or
\* lies beneath p, and every object outside p, a sibling whose name begins
\* with the same characters included, is as it was when the call began.
C22_DeletesOnlyBeneath ==
    op.name = "deleteDirectory" =>
        /\ \A i \in 1..Len(batches) : \A j \in 1..Len(batches[i].keys) :
               AtOrBeneath(batches[i].keys[j], op.path)
        /\ \A j \in 1..Len(op.bucket) : AtOrBeneath(op.bucket[j], op.path)
        /\ \A k \in Keys : ~AtOrBeneath(k, op.path) => store[k] = before[k]

\* deleteDirectory('a') has removed objects beneath "a" and completed while
\* the file 'ab' and the object 'ab/a' were there: they still are.
C22_Witness ==
    /\ DeleteDirectoryDone /\ op.result = "ok"
    /\ op.path = <<"a">>
    /\ KeysBeneath(before, op.path) # {}
    /\ KeysBeneath(store, op.path) = {}
    /\ store[prefixFilePath(<<"a", "b">>)].present
    /\ store[prefixFilePath(<<"a", "b", "/", "a">>)].present

(***************************************************************************)
(* The item cap of listObjects.                                            *)
(***************************************************************************)
\* C23: when the item cap maxKeys is given, listObjects yields at most
\* maxKeys items in total and requests no further page once the cap is
\* reached, for every combination of includeSelf and includePrefixes and
\* every way the backend splits the entries into pages of at most maxKeys
\* entries.
C23_YieldsAtMostMaxKeys ==
    \A i \in Iters : \A m \in iters[i].maxKeys :
       /\ Len(iters[i].yielded) <= m
       /\ iters[i].collectedKeys >= m => ~CanFetch(iters[i])

(***************************************************************************)
(* resolveMimeType settles.                                                *)
(***************************************************************************)
\* resolveMimeType has been called and has neither returned nor rejected.
ResolvePending == op.name = "resolveMimeType" /\ op.pc = "streamHead"

\* resolveMimeType has returned or rejected.
ResolveSettled == op.name = "resolveMimeType" /\ op.pc \in {"reading", "done"}

\* C24: resolveMimeType always settles.  A call whose source ends normally
\* eventually returns, once the head size has been seen or the stream has
\* ended, although nobody reads the returned stream before; a call whose
\* source raises an error before that is rejected: it does not stay pending
\* for ever.
C24_ResolveAlwaysSettles == ResolvePending ~> ResolveSettled

====
